---- MODULE Spec2Model ----
(***************************************************************************)
(* Model of sherpa's streaming websocket server                            *)
(* (sherpa/cpp_api/websocket/online-websocket-server-impl.cc):             *)
(*   - OnlineWebsocketServer: the connection registry connections_ and the *)
(*     handlers OnOpen / OnClose / OnMessage / Send, all of which run on   *)
(*     the connection executor io_conn;                                    *)
(*   - OnlineWebsocketDecoder: the ready queue streams_, the active set    *)
(*     active_, Push and Decode; Decode tasks run on the compute executor  *)
(*     io_work, one per worker thread at a time.                           *)
(* Every handler is cut at the places where another thread can observe or  *)
(* change the shared state: each lock region is one step, each call on the *)
(* stream or the recognizer is one step, each asio::post is one step.      *)
(***************************************************************************)
EXTENDS Naturals, Integers, Sequences, FiniteSets

\* ------------------------------------------------------------- bounds
\* Connection handles the transport can hand out; each is opened at most once.
Handles == {"h1", "h2"}
\* Worker threads running io_work.
Workers == {"w1", "w2"}
\* Messages the clients send in total, over all connections.
MaxMsgs == 3
\* The same in the runs that check progress under fair scheduling: with a
\* single connection, and with every handle in use.
MaxLiveMsgs == 3
MaxLivePairMsgs == 2
\* Largest binary payload, in bytes.
MaxPayload == 8

\* ---------------------------------------------------------- constants
\* sizeof(float), the divisor of payload.size() in OnMessage.
SizeofFloat == 4
\* Sample rate of the model, scaled down: 0.3 * SampleRate is one sample.
SampleRate == 4
\* static_cast<int64_t>(0.3 * sample_rate): the tail padding appended on "Done".
TailPadding == (3 * SampleRate) \div 10
\* Recognizer configuration: the samples one decode step consumes.
ChunkSize == 2

NoHdl == "none"
\* Value of connNum while no OnMessage is being run.
NoNum == -1

VARIABLES
  connections_,  \* registry: open handle -> its stream (OnlineWebsocketServer)
  opened,        \* handles the transport will not hand to OnOpen (again)
  streams_,      \* ready queue of <<hdl, s>> pairs (OnlineWebsocketDecoder)
  active_,       \* set of stream identities (OnlineWebsocketDecoder)
  samples,       \* per stream: samples accepted so far
  processed,     \* per stream: samples consumed by decode steps
  finished,      \* per stream: InputFinished() was called
  pc,            \* per worker: position inside Decode()
  cur,           \* per worker: the popped pair <<hdl, s>>
  workTasks,     \* io_work: posted Decode tasks not yet started
  connTasks,     \* io_conn: posted Send tasks, in posting order
  connPc,        \* connection executor: position inside OnMessage
  connHdl,       \* connection executor: hdl of the OnMessage being run
  connNum,       \* connection executor: samples the OnMessage being run has
                 \* passed to AcceptWaveform (num_samples, or the padding)
  nMsgs,         \* per handle: messages delivered to OnMessage
  budget,        \* messages the clients may still send
  wire,          \* per handle: text frames handed to the transport
  suppressed,    \* handles for which Send returned without sending
  skipped,       \* pairs <<a, b>>: a was popped while b was queued, and b
                 \* has not been popped since
  http,          \* OnHttp: the document root, the last request and its response
  owner,         \* per mutex: the thread that holds it
  at             \* per thread: the operation of a handler it is about to run

wsVars == <<connections_, opened, streams_, active_, samples, processed,
            finished, pc, cur, workTasks, connTasks, connPc, connHdl, connNum,
            nMsgs, budget, wire, suppressed, skipped>>

vars == <<wsVars, http, owner, at>>

regVars == <<connections_, opened>>
dispVars == <<streams_, active_>>
streamVars == <<samples, processed, finished>>
workerVars == <<pc, cur>>
connVars == <<connPc, connHdl, connNum, nMsgs, budget>>
\* The HTTP handler and the two mutexes are followed in specifications of their
\* own (HttpSpec, LockSpec); the steps of the websocket handlers, each of which
\* is a whole region of one mutex, leave them as they are.
offVars == <<http, owner, at>>

\* ------------------------------------------------- recognizer (external)
\* Frames accepted and not yet consumed by a decode step.
NumPending(s) == samples[s] - processed[s]

\* Recognizer.IsReady(S): enough new frames to perform a decode step.
IsReady(s) == NumPending(s) >= ChunkSize

NumFramesReady(s) == samples[s]

\* Stream.IsLastFrame(index): input is finished and index is the last frame.
IsLastFrame(s, index) == finished[s] /\ index = NumFramesReady(s) - 1

\* Recognizer.CreateStream(): a fresh stream; its identity is that of the
\* handle it is created for (one stream per OnOpen).
CreateStream(hdl) == hdl

\* ------------------------------------------------------------ registry
Contains(hdl) == hdl \in DOMAIN connections_

InQueue(s) == \E i \in 1..Len(streams_) : streams_[i][2] = s

\* --------------------------------------------------------------- OnHttp
\* Resources a client may ask for, and the files a document root may hold.
Resources == {"/", "/index.html", "/streaming_record.html", "/k2-logo.png",
              "/upload.html", "/offline_record.html", "/missing.html"}
RootFiles == {"/index.html", "/streaming_record.html", "/k2-logo.png",
              "/upload.html", "/offline_record.html"}

StatusOk == 200
StatusNotFound == 404

\* The inline HTML of lines 203-211, which names /streaming_record.html.
Stub == [kind |-> "stub", name |-> "/streaming_record.html"]
NoContent == [kind |-> "empty", name |-> ""]
FileContent(f) == [kind |-> "file", name |-> f]

\* HttpServer::ProcessRequest(filename, &content): true and the file's bytes
\* when the document root holds the file, false otherwise.
ProcessRequest(files, filename) ==
  IF filename \in files
    THEN [found |-> TRUE, content |-> FileContent(filename)]
    ELSE [found |-> FALSE, content |-> NoContent]

\* The status and body OnHttp sets for a resource. found starts false and is
\* assigned only on the branch that calls ProcessRequest.
HttpResponse(files, resource) ==
  LET filename == IF resource = "/" THEN "/index.html" ELSE resource
      served == filename # "/upload.html" /\ filename # "/offline_record.html"
      found == IF served THEN ProcessRequest(files, filename).found ELSE FALSE
      content == IF served THEN ProcessRequest(files, filename).content ELSE Stub
  IN  [status |-> IF found THEN StatusOk ELSE StatusNotFound, body |-> content]

NoHttp == [files |-> {}, resource |-> "", status |-> 0, body |-> NoContent]

\* ------------------------------------------------------------ the mutexes
\* mutex_ of the server guards connections_, mutex_ of the decoder guards
\* streams_ and active_.
Mutexes == {"registry", "dispatcher"}
ConnThreads == {"c1", "c2"}
Threads == ConnThreads \cup Workers
NoThread == "none"

Lock(m) == [op |-> "lock", m |-> m]
Unlock(m) == [op |-> "unlock", m |-> m]
Call(f) == [op |-> "call", m |-> f]

\* What the handlers of the connection executor do with the mutexes, in
\* program order, together with the calls made on the way. Push is inlined
\* in OnMessage.
ConnOps(h) ==
  CASE h = "OnOpen"    -> <<Lock("registry"), Call("CreateStream"),
                            Unlock("registry")>>
    [] h = "OnClose"   -> <<Lock("registry"), Call("erase"),
                            Unlock("registry")>>
    [] h = "Send"      -> <<Lock("registry"), Unlock("registry"),
                            Call("send")>>
    [] h = "OnMessage" -> <<Lock("registry"), Unlock("registry"),
                            Call("AcceptWaveform"), Call("IsReady"),
                            Lock("dispatcher"), Unlock("dispatcher"),
                            Call("post")>>
    [] OTHER           -> <<Lock("registry"), Unlock("registry"),
                            Call("AcceptWaveform"), Call("IsReady")>>

\* Decode without the unlock of line 83: the unique_lock is released when the
\* function returns.
DecodeOps_KeepsLock(h) ==
  CASE h = "DecodeEmpty" -> <<Lock("dispatcher"), Unlock("dispatcher")>>
    [] OTHER             -> <<Lock("dispatcher"),
                              Call("DecodeStream"), Call("post"),
                              Lock("registry"), Unlock("registry"),
                              Call("IsReady"), Unlock("dispatcher")>>

\* Decode: the empty queue, the re-append branch, the erase branch.
DecodeOps(h) ==
  CASE h = "DecodeEmpty" -> <<Lock("dispatcher"), Unlock("dispatcher")>>
    [] h = "DecodeAgain" -> <<Lock("dispatcher"), Unlock("dispatcher"),
                              Call("DecodeStream"), Call("post"),
                              Lock("registry"), Unlock("registry"),
                              Call("IsReady"),
                              Lock("dispatcher"), Unlock("dispatcher"),
                              Call("post")>>
    [] OTHER             -> <<Lock("dispatcher"), Unlock("dispatcher"),
                              Call("DecodeStream"), Call("post"),
                              Lock("registry"), Unlock("registry"),
                              Call("IsReady"),
                              Lock("dispatcher"), Unlock("dispatcher"),
                              Call("IsLastFrame"), Call("post")>>

\* The handlers a thread of each executor runs.
HandlersOf(t) ==
  IF t \in ConnThreads
    THEN {"OnOpen", "OnClose", "Send", "OnMessage", "OnMessageNotReady"}
    ELSE {"DecodeEmpty", "DecodeAgain", "DecodeLast"}

LockOps(h) ==
  IF h \in {"DecodeEmpty", "DecodeAgain", "DecodeLast"}
    THEN DecodeOps(h)
    ELSE ConnOps(h)

NoOp == <<"none", 0>>

\* -------------------------------------------------------- initial state
\* No request served yet, both mutexes free, no thread inside a handler.
LockInit ==
  /\ owner = [m \in Mutexes |-> NoThread]
  /\ at = [t \in Threads |-> NoOp]

OffInit ==
  /\ http = NoHttp
  /\ LockInit

Init ==
  /\ OffInit
  /\ connections_ = <<>>
  /\ opened = {}
  /\ streams_ = <<>>
  /\ active_ = {}
  /\ samples = [s \in Handles |-> 0]
  /\ processed = [s \in Handles |-> 0]
  /\ finished = [s \in Handles |-> FALSE]
  /\ pc = [w \in Workers |-> "idle"]
  /\ cur = [w \in Workers |-> <<NoHdl, NoHdl>>]
  /\ workTasks = 0
  /\ connTasks = <<>>
  /\ connPc = "idle"
  /\ connHdl = NoHdl
  /\ connNum = NoNum
  /\ nMsgs = [h \in Handles |-> 0]
  /\ wire = [h \in Handles |-> <<>>]
  /\ budget = MaxMsgs
  /\ suppressed = {}
  /\ skipped = {}

\* ------------------------------------------------- connection executor
OnOpen(hdl) ==
  /\ connPc = "idle"
  /\ hdl \notin opened
  /\ opened' = opened \cup {hdl}
  /\ connections_' = [h \in (DOMAIN connections_) \cup {hdl} |->
                        IF h = hdl THEN CreateStream(hdl) ELSE connections_[h]]
  /\ UNCHANGED <<dispVars, streamVars, workerVars, workTasks, connTasks,
                 connVars, wire, suppressed, skipped, offVars>>

OnClose(hdl) ==
  /\ connPc = "idle"
  /\ Contains(hdl)
  /\ connections_' = [h \in (DOMAIN connections_) \ {hdl} |-> connections_[h]]
  /\ UNCHANGED <<opened, dispVars, streamVars, workerVars, workTasks,
                 connTasks, connVars, wire, suppressed, skipped,
                 offVars>>

\* Send without the Contains(hdl) test.
Send_NoContains ==
  /\ connPc = "idle"
  /\ connTasks # <<>>
  /\ wire' = [wire EXCEPT ![Head(connTasks)[1]] = Append(@, Head(connTasks)[2])]
  /\ connTasks' = Tail(connTasks)
  /\ UNCHANGED <<regVars, dispVars, streamVars, workerVars, workTasks,
                 connVars, suppressed, skipped, offVars>>

\* A posted Send task runs: the frame goes out only if the handle is registered.
Send ==
  /\ connPc = "idle"
  /\ connTasks # <<>>
  /\ LET hdl == Head(connTasks)[1]
         text == Head(connTasks)[2]
     IN  IF ~Contains(hdl)
           THEN /\ suppressed' = suppressed \cup {hdl}
                /\ wire' = wire
           ELSE /\ wire' = [wire EXCEPT ![hdl] = Append(@, text)]
                /\ suppressed' = suppressed
  /\ connTasks' = Tail(connTasks)
  /\ UNCHANGED <<regVars, dispVars, streamVars, workerVars, workTasks,
                 connVars, skipped, offVars>>

\* ------------------------------------------------------------ dispatcher
\* Push without the active_.count(s) test.
Push_NoActiveCheck(hdl, s) ==
  /\ streams_' = Append(streams_, <<hdl, s>>)
  /\ active_' = active_ \cup {s}

\* Push without active_.insert(s).
Push_NoInsert(hdl, s) ==
  IF s \in active_
    THEN UNCHANGED dispVars
    ELSE /\ streams_' = Append(streams_, <<hdl, s>>)
         /\ active_' = active_

\* OnlineWebsocketDecoder::Push, one region of the dispatcher lock.
Push(hdl, s) ==
  IF s \in active_
    THEN UNCHANGED dispVars
    ELSE /\ streams_' = Append(streams_, <<hdl, s>>)
         /\ active_' = active_ \cup {s}

\* ---------------------------------------------------- OnMessage, by steps
\* The client still has a message to send on hdl: it sends nothing after "Done".
MaySend(hdl) ==
  /\ connPc = "idle"
  /\ Contains(hdl)
  /\ budget > 0
  /\ ~finished[connections_[hdl]]

\* text "Done": registry lookup, then AcceptWaveform(tail_padding).
OnMessageDone(hdl) ==
  /\ MaySend(hdl)
  /\ nMsgs' = [nMsgs EXCEPT ![hdl] = @ + 1]
  /\ budget' = budget - 1
  /\ samples' = [samples EXCEPT ![connections_[hdl]] = @ + TailPadding]
  /\ connPc' = "InputFinished"
  /\ connHdl' = hdl
  /\ connNum' = TailPadding
  /\ UNCHANGED <<regVars, dispVars, processed, finished, workerVars,
                 workTasks, connTasks, wire, suppressed, skipped,
                 offVars>>

\* binary payload of `bytes` bytes: registry lookup, then AcceptWaveform(samples).
OnMessageBinary(hdl, bytes) ==
  /\ MaySend(hdl)
  /\ nMsgs' = [nMsgs EXCEPT ![hdl] = @ + 1]
  /\ budget' = budget - 1
  /\ samples' = [samples EXCEPT ![connections_[hdl]] = @ + (bytes \div SizeofFloat)]
  /\ connPc' = "IsReady"
  /\ connHdl' = hdl
  /\ connNum' = bytes \div SizeofFloat
  /\ UNCHANGED <<regVars, dispVars, processed, finished, workerVars,
                 workTasks, connTasks, wire, suppressed, skipped,
                 offVars>>

\* a text other than "Done", or another opcode: nothing is done with it.
OnMessageOther(hdl) ==
  /\ MaySend(hdl)
  /\ nMsgs' = [nMsgs EXCEPT ![hdl] = @ + 1]
  /\ budget' = budget - 1
  /\ UNCHANGED <<regVars, dispVars, streamVars, workerVars, workTasks,
                 connTasks, connPc, connHdl, connNum, wire, suppressed, skipped,
                 offVars>>

OnMessageInputFinished ==
  /\ connPc = "InputFinished"
  /\ finished' = [finished EXCEPT ![connections_[connHdl]] = TRUE]
  /\ connPc' = "IsReady"
  /\ UNCHANGED <<regVars, dispVars, samples, processed, workerVars,
                 workTasks, connTasks, connHdl, connNum, nMsgs, budget, wire,
                 suppressed, skipped, offVars>>

OnMessageIsReady ==
  /\ connPc = "IsReady"
  /\ IF IsReady(connections_[connHdl])
       THEN connPc' = "Push" /\ connHdl' = connHdl /\ connNum' = connNum
       ELSE connPc' = "idle" /\ connHdl' = NoHdl /\ connNum' = NoNum
  /\ UNCHANGED <<regVars, dispVars, streamVars, workerVars, workTasks,
                 connTasks, nMsgs, budget, wire, suppressed, skipped,
                 offVars>>

OnMessagePush ==
  /\ connPc = "Push"
  /\ Push(connHdl, connections_[connHdl])
  /\ connPc' = "Post"
  /\ UNCHANGED <<regVars, streamVars, workerVars, workTasks, connTasks,
                 connHdl, connNum, nMsgs, budget, wire, suppressed, skipped,
                 offVars>>

OnMessagePost ==
  /\ connPc = "Post"
  /\ workTasks' = workTasks + 1
  /\ connPc' = "idle"
  /\ connHdl' = NoHdl
  /\ connNum' = NoNum
  /\ UNCHANGED <<regVars, dispVars, streamVars, workerVars, connTasks,
                 nMsgs, budget, wire, suppressed, skipped, offVars>>

\* ------------------------------------------------------- Decode, by steps
\* Decode reading streams_.front() without streams_.pop_front().
DecodePop_NoPopFront(w) ==
  /\ pc[w] = "idle"
  /\ workTasks > 0
  /\ workTasks' = workTasks - 1
  /\ IF streams_ = <<>>
       THEN UNCHANGED <<streams_, workerVars, skipped>>
       ELSE /\ cur' = [cur EXCEPT ![w] = Head(streams_)]
            /\ streams_' = streams_
            /\ pc' = [pc EXCEPT ![w] = "DecodeStream"]
            /\ skipped' = skipped
  /\ UNCHANGED <<regVars, active_, streamVars, connTasks, connVars, wire,
                 suppressed, offVars>>

\* A worker takes a posted Decode task: lock, return on an empty queue, else
\* pop the head. skipped records whom the popped stream leaves waiting.
DecodePop(w) ==
  /\ pc[w] = "idle"
  /\ workTasks > 0
  /\ workTasks' = workTasks - 1
  /\ IF streams_ = <<>>
       THEN UNCHANGED <<streams_, workerVars, skipped>>
       ELSE /\ cur' = [cur EXCEPT ![w] = Head(streams_)]
            /\ streams_' = Tail(streams_)
            /\ pc' = [pc EXCEPT ![w] = "DecodeStream"]
            /\ LET a == Head(streams_)[2]
                   rest == Tail(streams_)
               IN  skipped' = {p \in skipped : p[2] # a} \cup
                              {<<a, rest[i][2]>> : i \in 1..Len(rest)}
  /\ UNCHANGED <<regVars, active_, streamVars, connTasks, connVars, wire,
                 suppressed, offVars>>

\* recognizer_->DecodeStream(s): one decode step consumes one chunk.
DecodeStream(w) ==
  /\ pc[w] = "DecodeStream"
  /\ LET s == cur[w][2]
     IN  processed' = [processed EXCEPT ![s] = IF IsReady(s) THEN @ + ChunkSize ELSE @]
  /\ pc' = [pc EXCEPT ![w] = "GetResult"]
  /\ UNCHANGED <<regVars, dispVars, samples, finished, cur, workTasks,
                 connTasks, connVars, wire, suppressed, skipped,
                 offVars>>

\* The hypothesis posted twice.
DecodePostResult_Twice(w) ==
  /\ pc[w] = "GetResult"
  /\ connTasks' = connTasks \o <<<<cur[w][1], "hyp">>, <<cur[w][1], "hyp">>>>
  /\ pc' = [pc EXCEPT ![w] = "Contains"]
  /\ UNCHANGED <<regVars, dispVars, streamVars, cur, workTasks, connVars,
                 wire, suppressed, skipped, offVars>>

\* GetResult and the post of Send(hdl, json) to io_conn.
DecodePostResult(w) ==
  /\ pc[w] = "GetResult"
  /\ connTasks' = Append(connTasks, <<cur[w][1], "hyp">>)
  /\ pc' = [pc EXCEPT ![w] = "Contains"]
  /\ UNCHANGED <<regVars, dispVars, streamVars, cur, workTasks, connVars,
                 wire, suppressed, skipped, offVars>>

\* server_->Contains(hdl), the first operand of && .
DecodeContains(w) ==
  /\ pc[w] = "Contains"
  /\ pc' = [pc EXCEPT ![w] = IF Contains(cur[w][1]) THEN "IsReady" ELSE "Erase"]
  /\ UNCHANGED <<regVars, dispVars, streamVars, cur, workTasks, connTasks,
                 connVars, wire, suppressed, skipped, offVars>>

\* recognizer_->IsReady(s), the second operand of && .
DecodeIsReady(w) ==
  /\ pc[w] = "IsReady"
  /\ pc' = [pc EXCEPT ![w] = IF IsReady(cur[w][2]) THEN "PushBack" ELSE "Erase"]
  /\ UNCHANGED <<regVars, dispVars, streamVars, cur, workTasks, connTasks,
                 connVars, wire, suppressed, skipped, offVars>>

\* Decode re-inserting the pair at the head of the queue (push_front).
DecodePushBack_Front(w) ==
  /\ pc[w] = "PushBack"
  /\ streams_' = <<cur[w]>> \o streams_
  /\ pc' = [pc EXCEPT ![w] = "Post"]
  /\ UNCHANGED <<regVars, active_, streamVars, cur, workTasks, connTasks,
                 connVars, wire, suppressed, skipped, offVars>>

\* lock; streams_.push_back({hdl, s}); unlock.
DecodePushBack(w) ==
  /\ pc[w] = "PushBack"
  /\ streams_' = Append(streams_, cur[w])
  /\ pc' = [pc EXCEPT ![w] = "Post"]
  /\ UNCHANGED <<regVars, active_, streamVars, cur, workTasks, connTasks,
                 connVars, wire, suppressed, skipped, offVars>>

\* Decode returning after the push_back without posting another Decode.
DecodePost_NoPost(w) ==
  /\ pc[w] = "Post"
  /\ workTasks' = workTasks
  /\ pc' = [pc EXCEPT ![w] = "idle"]
  /\ cur' = [cur EXCEPT ![w] = <<NoHdl, NoHdl>>]
  /\ UNCHANGED <<regVars, dispVars, streamVars, connTasks, connVars, wire,
                 suppressed, skipped, offVars>>

\* asio::post(io_work, Decode).
DecodePost(w) ==
  /\ pc[w] = "Post"
  /\ workTasks' = workTasks + 1
  /\ pc' = [pc EXCEPT ![w] = "idle"]
  /\ cur' = [cur EXCEPT ![w] = <<NoHdl, NoHdl>>]
  /\ UNCHANGED <<regVars, dispVars, streamVars, connTasks, connVars, wire,
                 suppressed, skipped, offVars>>

\* Decode leaving the stream in active_ when it stops decoding it.
DecodeErase_Skip(w) ==
  /\ pc[w] = "Erase"
  /\ active_' = active_
  /\ pc' = [pc EXCEPT ![w] = "IsLastFrame"]
  /\ UNCHANGED <<regVars, streams_, streamVars, cur, workTasks, connTasks,
                 connVars, wire, suppressed, skipped, offVars>>

\* lock; active_.erase(s.get()); unlock.
DecodeErase(w) ==
  /\ pc[w] = "Erase"
  /\ active_' = active_ \ {cur[w][2]}
  /\ pc' = [pc EXCEPT ![w] = "IsLastFrame"]
  /\ UNCHANGED <<regVars, streams_, streamVars, cur, workTasks, connTasks,
                 connVars, wire, suppressed, skipped, offVars>>

\* if (s->IsLastFrame(s->NumFramesReady() - 1)) post Send(hdl, "Done").
DecodeLastFrame(w) ==
  /\ pc[w] = "IsLastFrame"
  /\ LET hdl == cur[w][1]
         s == cur[w][2]
     IN  connTasks' = IF IsLastFrame(s, NumFramesReady(s) - 1)
                        THEN Append(connTasks, <<hdl, "Done">>)
                        ELSE connTasks
  /\ pc' = [pc EXCEPT ![w] = "idle"]
  /\ cur' = [cur EXCEPT ![w] = <<NoHdl, NoHdl>>]
  /\ UNCHANGED <<regVars, dispVars, streamVars, workTasks, connVars, wire,
                 suppressed, skipped, offVars>>

\* ---------------------------------------------------------------- system
WorkerStep(w) ==
  \/ DecodePop(w)
  \/ DecodeStream(w)
  \/ DecodePostResult(w)
  \/ DecodeContains(w)
  \/ DecodeIsReady(w)
  \/ DecodePushBack(w)
  \/ DecodePost(w)
  \/ DecodeErase(w)
  \/ DecodeLastFrame(w)

\* What the connection executor does on its own, once a handler has started
\* or a task has been posted to it.
ConnStep ==
  \/ Send
  \/ OnMessageInputFinished
  \/ OnMessageIsReady
  \/ OnMessagePush
  \/ OnMessagePost

\* What the clients and the transport decide.
ClientStep ==
  \/ \E hdl \in Handles : OnOpen(hdl)
  \/ \E hdl \in Handles : OnClose(hdl)
  \/ \E hdl \in Handles : OnMessageDone(hdl)
  \/ \E hdl \in Handles : \E bytes \in 0..MaxPayload : OnMessageBinary(hdl, bytes)
  \/ \E hdl \in Handles : OnMessageOther(hdl)

Next ==
  \/ ClientStep
  \/ ConnStep
  \/ \E w \in Workers : WorkerStep(w)

Spec == Init /\ [][Next]_vars

\* DecodeStream leaves by an exception. Decode (lines 75-112) has no handler, so
\* the exception unwinds the call from line 88: lines 90-110 are not run and the
\* pair held by the call is dropped. What catches it lies outside this file:
\* the worker either goes on serving io_work or has left it for good. A process
\* that ends with the exception is the run that stops changing after this step.
DecodeStreamThrows(w) ==
  /\ pc[w] = "DecodeStream"
  /\ \E after \in {"idle", "dead"} : pc' = [pc EXCEPT ![w] = after]
  /\ cur' = [cur EXCEPT ![w] = <<NoHdl, NoHdl>>]
  /\ UNCHANGED <<regVars, dispVars, streamVars, workTasks, connTasks, connVars,
                 wire, suppressed, skipped, offVars>>

\* OnMessage for a handle that is no longer in connections_. Line 226 takes
\* find(hdl)->second with no test against end(), so the value read is undefined:
\* the connection thread faults on it (connPc "crashed": it runs nothing more),
\* or it gets through the handler with a pointer that reaches no stream.
OnMessageUnknown(hdl) ==
  /\ connPc = "idle"
  /\ hdl \in opened
  /\ ~Contains(hdl)
  /\ budget > 0
  /\ nMsgs' = [nMsgs EXCEPT ![hdl] = @ + 1]
  /\ budget' = budget - 1
  /\ \E after \in {"crashed", "idle"} : connPc' = after
  /\ UNCHANGED <<regVars, dispVars, streamVars, workerVars, workTasks,
                 connTasks, connHdl, connNum, wire, suppressed, skipped,
                 offVars>>

\* The system with the faults the error handling is about.
FaultStep ==
  \/ \E w \in Workers : DecodeStreamThrows(w)
  \/ \E hdl \in Handles : OnMessageUnknown(hdl)

FaultNext ==
  \/ Next
  \/ FaultStep

FaultSpec == Init /\ [][FaultNext]_vars

\* ------------------------------------------------------------- OnHttp
\* One HTTP request for `resource`, served from the document root in http.files.
OnHttp(resource) ==
  /\ http' = [files |-> http.files,
              resource |-> resource,
              status |-> HttpResponse(http.files, resource).status,
              body |-> HttpResponse(http.files, resource).body]
  /\ UNCHANGED <<wsVars, owner, at>>

\* The server starts over any document root.
HttpInit ==
  /\ \E files \in SUBSET RootFiles : http = [NoHttp EXCEPT !.files = files]
  /\ LockInit
  /\ connections_ = <<>>
  /\ opened = {}
  /\ streams_ = <<>>
  /\ active_ = {}
  /\ samples = [s \in Handles |-> 0]
  /\ processed = [s \in Handles |-> 0]
  /\ finished = [s \in Handles |-> FALSE]
  /\ pc = [w \in Workers |-> "idle"]
  /\ cur = [w \in Workers |-> <<NoHdl, NoHdl>>]
  /\ workTasks = 0
  /\ connTasks = <<>>
  /\ connPc = "idle"
  /\ connHdl = NoHdl
  /\ connNum = NoNum
  /\ nMsgs = [h \in Handles |-> 0]
  /\ wire = [h \in Handles |-> <<>>]
  /\ budget = MaxMsgs
  /\ suppressed = {}
  /\ skipped = {}

HttpNext == \E resource \in Resources : OnHttp(resource)

HttpSpec == HttpInit /\ [][HttpNext]_vars

\* ------------------------------------------------ the handlers' locking
\* The operation thread t is about to run, and its position after it.
NextOp(t) == LockOps(at[t][1])[at[t][2]]

Advance(t) ==
  IF at[t][2] = Len(LockOps(at[t][1]))
    THEN [at EXCEPT ![t] = NoOp]
    ELSE [at EXCEPT ![t] = <<at[t][1], at[t][2] + 1>>]

\* An executor hands one of its handlers to an idle thread.
Enter(t) ==
  /\ at[t] = NoOp
  /\ \E h \in HandlersOf(t) : at' = [at EXCEPT ![t] = <<h, 1>>]
  /\ UNCHANGED <<wsVars, http, owner>>

\* std::mutex::lock: the thread waits until the mutex is free.
Acquire(t) ==
  /\ at[t] # NoOp
  /\ NextOp(t).op = "lock"
  /\ owner[NextOp(t).m] = NoThread
  /\ owner' = [owner EXCEPT ![NextOp(t).m] = t]
  /\ at' = Advance(t)
  /\ UNCHANGED <<wsVars, http>>

Release(t) ==
  /\ at[t] # NoOp
  /\ NextOp(t).op = "unlock"
  /\ owner' = [owner EXCEPT ![NextOp(t).m] = NoThread]
  /\ at' = Advance(t)
  /\ UNCHANGED <<wsVars, http>>

RunCall(t) ==
  /\ at[t] # NoOp
  /\ NextOp(t).op = "call"
  /\ at' = Advance(t)
  /\ UNCHANGED <<wsVars, http, owner>>

LockNext ==
  \/ \E t \in Threads : Enter(t)
  \/ \E t \in Threads : Acquire(t)
  \/ \E t \in Threads : Release(t)
  \/ \E t \in Threads : RunCall(t)

LockSpec == Init /\ [][LockNext]_vars

\* The same system with the scheduling the two io_contexts give: a posted task
\* or a started handler is eventually run by the connection thread, and every
\* worker thread keeps running. The clients are under no obligation. The runs
\* start either with one handle left to hand out and MaxLiveMsgs messages, or
\* with every handle and MaxLivePairMsgs messages.
LiveInit ==
  /\ OffInit
  /\ connections_ = <<>>
  /\ \/ \E h \in Handles : opened = Handles \ {h} /\ budget = MaxLiveMsgs
     \/ opened = {} /\ budget = MaxLivePairMsgs
  /\ streams_ = <<>>
  /\ active_ = {}
  /\ samples = [s \in Handles |-> 0]
  /\ processed = [s \in Handles |-> 0]
  /\ finished = [s \in Handles |-> FALSE]
  /\ pc = [w \in Workers |-> "idle"]
  /\ cur = [w \in Workers |-> <<NoHdl, NoHdl>>]
  /\ workTasks = 0
  /\ connTasks = <<>>
  /\ connPc = "idle"
  /\ connHdl = NoHdl
  /\ connNum = NoNum
  /\ nMsgs = [h \in Handles |-> 0]
  /\ wire = [h \in Handles |-> <<>>]
  /\ suppressed = {}
  /\ skipped = {}

Fairness ==
  /\ WF_vars(ConnStep)
  /\ \A w \in Workers : WF_vars(WorkerStep(w))

FairSpec == LiveInit /\ [][Next]_vars /\ Fairness

\* ------------------------------------------------------------ properties
\* Positions of Decode between the pop and the continuation decision.
InFlightPcs == {"DecodeStream", "GetResult", "Contains", "IsReady", "PushBack", "Erase"}

\* Worker w has popped s and has not yet re-appended or erased it.
InFlight(w, s) == cur[w][2] = s /\ pc[w] \in InFlightPcs

\* Worker w is inside recognizer_->DecodeStream(s).
Decoding(w, s) == cur[w][2] = s /\ pc[w] = "DecodeStream"

\* The connection of h is closed for good: the transport does not hand h out
\* (again) and h is not in the registry.
Closed(h) == h \in opened /\ ~Contains(h)

\* Number of frames with the given text in a sequence of frames.
RECURSIVE CountText(_, _)
CountText(seq, text) ==
  IF seq = <<>> THEN 0
  ELSE (IF Head(seq) = text THEN 1 ELSE 0) + CountText(Tail(seq), text)

\* C1: for every stream, at most one worker is executing DecodeStream on it,
\* whatever the interleaving of OnMessage/Push with the Decode tasks.
C1_AtMostOneDecodeStream ==
  \A s \in Handles : Cardinality({w \in Workers : Decoding(w, s)}) <= 1

\* C1 witness: a worker is inside DecodeStream(s) while OnMessage has just
\* called Push for the same s (which Push turned down), and the other worker
\* is inside DecodeStream on another stream.
C1_Witness ==
  /\ \A w \in Workers : pc[w] = "DecodeStream"
  /\ connPc = "Post"
  /\ \E w \in Workers : Decoding(w, connections_[connHdl])

\* C2: a stream identity is in the active set iff it has an entry in the ready
\* queue or a Decode has popped it and not yet re-appended or erased it.
C2_ActiveIffQueuedOrInFlight ==
  \A s \in Handles :
    s \in active_ <=> (InQueue(s) \/ \E w \in Workers : InFlight(w, s))

\* C2 witness: one stream is active because it is queued, another because a
\* decode step holds it, and the latter is not in the queue.
C2_Witness ==
  \E a, b \in Handles :
    /\ a # b
    /\ a \in active_ /\ InQueue(a)
    /\ b \in active_ /\ ~InQueue(b) /\ \E w \in Workers : InFlight(w, b)

\* C3: the ready queue never holds two entries for one stream identity.
C3_NoDuplicateInQueue ==
  \A i, j \in 1..Len(streams_) : streams_[i][2] = streams_[j][2] => i = j

\* C3 witness: a stream is back in the queue after a re-append (it has been
\* decoded at least once) while another stream is queued too.
C3_Witness ==
  /\ Len(streams_) = 2
  /\ \E i \in 1..2 : processed[streams_[i][2]] > 0

\* C4: once OnClose(H) has returned, no Send(H, text) puts a frame on the wire.
C4_NoFrameAfterClose ==
  [][\A h \in Handles : ~Contains(h) => wire'[h] = wire[h]]_vars

\* C4 witness: a Send for a closed handle has run and returned without sending,
\* after frames had gone out on that handle while it was open.
C4_Witness ==
  \E h \in Handles : Closed(h) /\ h \in suppressed /\ wire[h] # <<>>

\* C9: a stream is never popped for a decode step while a stream it left
\* waiting in the queue at its previous pop has still not been popped.
C9_RoundRobin ==
  [][\A w \in Workers :
       (pc[w] = "idle" /\ pc'[w] = "DecodeStream")
         => ~\E b \in Handles : <<cur'[w][2], b>> \in skipped]_vars

\* C9 witness: stream b is in a decode step that started while a was waiting
\* in the queue; a has had a decode step before and was re-appended behind b.
C9_Witness ==
  \E a, b \in Handles :
    /\ a # b
    /\ <<b, a>> \in skipped
    /\ InQueue(a) /\ processed[a] > 0
    /\ \E w \in Workers : InFlight(w, b) /\ processed[b] > 0

\* C5: on a connection whose client sent audio and then "Done" and which is
\* still open, the server's "Done" frame is terminal: there is at most one
\* "Done" on the wire of the handle and no frame follows it.
C5_DoneIsTerminal ==
  \A h \in Handles :
    (Contains(h) /\ finished[h] /\ samples[h] > TailPadding) =>
      /\ CountText(wire[h], "Done") <= 1
      /\ \A i \in 1..Len(wire[h]) : wire[h][i] = "Done" => i = Len(wire[h])

\* Worker w posts Send(hdl, "Done") in this step.
PostsDone(w) ==
  /\ pc[w] = "IsLastFrame"
  /\ pc'[w] = "idle"
  /\ connTasks' = Append(connTasks, <<cur[w][1], "Done">>)

\* C6: when Decode posts Send(H, "Done") for an open connection, InputFinished
\* has been signalled on the stream and no frames of it await a decode step.
C6_DoneAfterFinalFrame ==
  [][\A w \in Workers :
       (PostsDone(w) /\ Contains(cur[w][1]))
         => (finished[cur[w][2]] /\ ~IsReady(cur[w][2]))]_vars

\* C7: once the client has sent "Done" and frames of the stream await a
\* decode step, then, unless the connection closes, they are eventually
\* decoded, and a "Done" frame is eventually sent to the client.
C7_EventuallyDecodedAndDone ==
  \A h \in Handles :
    (finished[h] /\ IsReady(h))
      ~> (~Contains(h) \/ (~IsReady(h) /\ CountText(wire[h], "Done") >= 1))

\* "Done" was the first message on the connection of h, and OnMessage has
\* appended the tail padding and called InputFinished.
DoneFirst(h) == nMsgs[h] = 1 /\ finished[h] /\ samples[h] = TailPadding

\* C8: when "Done" is the first message on a connection, a "Done" frame is
\* eventually sent to the client, unless the connection closes.
C8_DoneFirstEventuallyDone ==
  \A h \in Handles :
    DoneFirst(h) ~> (~Contains(h) \/ CountText(wire[h], "Done") >= 1)

\* Every handle has been opened and its connection has closed.
AllClosed == \A h \in Handles : Closed(h)

\* C10: once a connection has closed, the registry stays without the handle
\* and no frame goes out for it; its stream is eventually out of the ready
\* queue and of the active set for good; and once no connection is open any
\* more the active set eventually stays empty.
C10_ClosedStreamLeavesActiveSet ==
  /\ [][\A h \in Handles : Closed(h) => (Closed(h)' /\ wire'[h] = wire[h])]_vars
  /\ \A h \in Handles : Closed(h) ~> [](h \notin active_ /\ ~InQueue(h))
  /\ AllClosed ~> [](active_ = {})

\* C10 witness: a connection has closed while its stream was in a decode
\* step, and another closed while its stream was waiting in the ready queue.
C10_Witness ==
  \E a, b \in Handles :
    /\ Closed(a) /\ \E w \in Workers : InFlight(w, a)
    /\ Closed(b) /\ InQueue(b)

\* C11: when DecodeStream(S) fails during a Decode step, S is removed from the
\* Active Set, so that a later Push(H, S) is not rejected, and H stays in the
\* registry. Stated on the step in which the failing call is left.
Throws(w) == pc[w] = "DecodeStream" /\ pc'[w] \in {"idle", "dead"}

C11_DecodeErrorReleasesStream ==
  [][\A w \in Workers :
       Throws(w) => /\ cur[w][2] \notin active_'
                    /\ (Contains(cur[w][1]) => cur[w][1] \in DOMAIN connections_')]_vars

\* C12: OnMessage for a handle that is not in the registry returns normally and
\* leaves the registry, every stream, the ready queue, the Active Set and the
\* pending tasks as they were.
UnknownDelivered(h) == ~Contains(h) /\ nMsgs'[h] # nMsgs[h]

C12_UnknownHandleIgnored ==
  [][\A h \in Handles :
       UnknownDelivered(h) =>
         /\ connPc' = "idle"
         /\ UNCHANGED <<regVars, dispVars, streamVars, workTasks, connTasks>>]_vars

\* C13: a GET for /upload.html or /offline_record.html is answered with
\* status 200 and the inline stub as body, whatever the document root holds.
Shadowed == {"/upload.html", "/offline_record.html"}

C13_ShadowedPathsReturnStub ==
  http.resource \in Shadowed => http.status = StatusOk /\ http.body = Stub

\* Number of entries of stream s in the queue q.
Entries(s, q) == Cardinality({i \in 1..Len(q) : q[i][2] = s})

\* The step that runs Push(connHdl, stream) inside OnMessage.
PushCalled == connPc = "Push" /\ connPc' = "Post"

\* C14 as stated: after any call of Push(H, S) the queue holds exactly one
\* entry for S, and a call that finds S in the Active Set (a call after the
\* first with no Decode having completed the stream) changes nothing.
C14_PushLeavesExactlyOneEntry ==
  [][PushCalled =>
       LET s == connections_[connHdl]
       IN  /\ Entries(s, streams_') = 1
           /\ (s \in active_ => UNCHANGED dispVars)]_vars

\* C14, amended: Push is idempotent between decode boundaries. A call that
\* finds S outside the Active Set appends one entry and inserts S; a call that
\* finds S in the Active Set changes neither the queue nor the Active Set; and
\* after any call the queue holds exactly one entry for S, unless a Decode
\* holds S popped at that moment, in which case it holds none.
C14_PushIdempotent ==
  [][PushCalled =>
       LET s == connections_[connHdl]
       IN  /\ s \in active_ => UNCHANGED dispVars
           /\ s \notin active_ =>
                 /\ streams_' = Append(streams_, <<connHdl, s>>)
                 /\ active_' = active_ \cup {s}
           /\ Entries(s, streams_') =
                 IF \E w \in Workers : InFlight(w, s) THEN 0 ELSE 1]_vars

\* A second Push of a stream whose first entry no Decode has popped yet has
\* just returned: one entry, one posted task from the first call.
C14_Witness ==
  /\ connPc = "Post"
  /\ workTasks = 1
  /\ streams_ = <<<<connHdl, connections_[connHdl]>>>>
  /\ \A w \in Workers : pc[w] = "idle"
  /\ processed[connections_[connHdl]] = 0

\* The order in which one Decode call passes its steps: every path from the
\* pop back to idle goes through "GetResult" once.
DecodeFlow ==
  {<<"idle", "DecodeStream">>, <<"DecodeStream", "GetResult">>,
   <<"GetResult", "Contains">>, <<"Contains", "IsReady">>,
   <<"Contains", "Erase">>, <<"IsReady", "PushBack">>, <<"IsReady", "Erase">>,
   <<"PushBack", "Post">>, <<"Post", "idle">>, <<"Erase", "IsLastFrame">>,
   <<"IsLastFrame", "idle">>}

\* A Decode call keeps to DecodeFlow, and leaves "GetResult" by posting one
\* hypothesis for the handle it popped, while it holds the stream.
PostsOneHypothesis(w) ==
  /\ pc'[w] # pc[w] => <<pc[w], pc'[w]>> \in DecodeFlow
  /\ pc[w] = "GetResult" /\ pc'[w] # pc[w] =>
        /\ connTasks' = Append(connTasks, <<cur[w][1], "hyp">>)
        /\ InFlight(w, cur[w][2])
        /\ cur'[w] = cur[w]
        /\ pc'[w] \in InFlightPcs

\* Nothing else is posted to io_conn: a post is the hypothesis of a call at
\* "GetResult" or the "Done" of a call that is past it.
PostedByDecode ==
  Len(connTasks') > Len(connTasks) =>
    \E w \in Workers :
      /\ pc'[w] # pc[w]
      /\ \/ /\ pc[w] = "GetResult"
            /\ connTasks' = Append(connTasks, <<cur[w][1], "hyp">>)
         \/ /\ pc[w] = "IsLastFrame"
            /\ connTasks' = Append(connTasks, <<cur[w][1], "Done">>)

\* C15: every decode step that completes posts exactly one Send(H, hypothesis)
\* for the owning handle; the posts of one stream occur in the order of its
\* decode steps, because each is made while its Decode holds the stream and
\* at most one Decode holds a stream at a time; and "Done" is posted only by a
\* call that is past its own hypothesis post.
C15_OneHypothesisPerStepInOrder ==
  /\ [](\A s \in Handles : Cardinality({w \in Workers : InFlight(w, s)}) <= 1)
  /\ [][(\A w \in Workers : PostsOneHypothesis(w)) /\ PostedByDecode]_vars

\* Two decode steps of one stream and the final "Done", delivered in order.
C15_Witness == \E h \in Handles : wire[h] = <<"hyp", "hyp", "Done">>

\* The step that starts OnMessage for a binary frame: the registry lookup and
\* AcceptWaveform(num_samples).
BinaryAccepted == connPc = "idle" /\ connPc' = "IsReady"

\* C16: a binary frame of n*4 bytes adds exactly n samples to the stream of its
\* connection, and the handler of an empty binary frame changes neither the
\* ready queue nor the Active Set.
C16_BinaryFrameSamples ==
  [][/\ BinaryAccepted =>
          /\ connNum' \in 0..(MaxPayload \div SizeofFloat)
          /\ samples' = [samples EXCEPT ![connections_[connHdl']] = @ + connNum']
     /\ connNum = 0 /\ connPc' # connPc => UNCHANGED dispVars]_vars

\* The mutexes thread t holds; whether it is inside a handler; whether its
\* next operation can be run now (a lock waits for the mutex to be free).
Held(t) == {m \in Mutexes : owner[m] = t}
InHandler(t) == at[t] # NoOp
CanStep(t) ==
  InHandler(t) /\ (NextOp(t).op = "lock" => owner[NextOp(t).m] = NoThread)

\* C17: no thread holds the registry lock and the dispatcher lock together;
\* no lock is held while DecodeStream runs or while a task is posted, nor
\* after a handler has returned; and no interleaving of the handlers
\* deadlocks: whoever waits for a mutex waits for a thread that can go on.
C17_LocksNeverNested ==
  /\ \A t \in Threads : Cardinality(Held(t)) <= 1
  /\ \A t \in Threads :
       InHandler(t) /\ NextOp(t) \in {Call("DecodeStream"), Call("post")}
         => Held(t) = {}
  /\ \A t \in Threads : ~InHandler(t) => Held(t) = {}
  /\ \A t \in Threads :
       InHandler(t) /\ ~CanStep(t) =>
         /\ owner[NextOp(t).m] # t
         /\ CanStep(owner[NextOp(t).m])

\* Both mutexes are held, by two threads, and a third thread waits for one.
C17_Witness ==
  \E t1, t2, t3 \in Threads :
    /\ owner["registry"] = t1
    /\ owner["dispatcher"] = t2
    /\ t3 \notin {t1, t2}
    /\ InHandler(t3)
    /\ ~CanStep(t3)

\* Nothing is pending: no posted task on either executor, no handler and no
\* Decode under way. Messages are delivered to OnMessage as they are sent.
Quiescent ==
  /\ workTasks = 0
  /\ connTasks = <<>>
  /\ connPc = "idle"
  /\ \A w \in Workers : pc[w] = "idle"

\* C18: in a quiescent state no stream of a registered connection is ready
\* for a decode step.
C18_NoLostWakeup ==
  Quiescent => \A h \in DOMAIN connections_ : ~IsReady(connections_[h])

\* No Push of OnMessage and no push_back of Decode is between its append and
\* its post.
NoneMidway == connPc # "Post" /\ \A w \in Workers : pc[w] # "Post"

\* C19: whenever no append is midway, the posted Decode tasks (those not yet
\* started alone, so all the more with the running ones) are at least as
\* many as the queue entries; the queue is empty in every quiescent state;
\* and every queue entry is eventually popped.
C19_NoStrandedEntry ==
  /\ [](NoneMidway => workTasks >= Len(streams_))
  /\ [](Quiescent => streams_ = <<>>)
  /\ \A s \in Handles : InQueue(s) ~> ~InQueue(s)

\* Two entries wait, each with its posted Decode, and nothing is midway.
C19_Witness ==
  /\ Len(streams_) = 2
  /\ workTasks = 2
  /\ NoneMidway

\* The step in which OnMessage calls AcceptWaveform or InputFinished on s.
FeedsStream(s) ==
  \/ /\ connPc = "idle"
     /\ connPc' \in {"IsReady", "InputFinished"}
     /\ connections_[connHdl'] = s
  \/ /\ connPc = "InputFinished"
     /\ connPc' # connPc
     /\ connections_[connHdl] = s

\* The positions at which a Decode call is at a call on its stream.
StreamCallPcs == {"DecodeStream", "GetResult", "IsReady", "IsLastFrame"}

\* C20: OnMessage makes no AcceptWaveform or InputFinished call on a stream
\* while a Decode is at its DecodeStream, GetResult, IsReady or IsLastFrame
\* call on the same stream, with nothing ordering the two calls.
C20_ExclusiveStreamAccess ==
  [][\A s \in Handles :
       FeedsStream(s) =>
         ~\E w \in Workers : cur[w][2] = s /\ pc[w] \in StreamCallPcs]_vars

====
